---------------------------- MODULE Spec2Model ----------------------------
(***************************************************************************)
(* The two batch tools of koishi-plugin-minecraft-sync-msg:                *)
(*   scripts/merge_mc_lang.py      (the Language Merger)                   *)
(*   scripts/scan_advancements.py  (the Advancement Scanner)               *)
(*                                                                         *)
(* SpecMerge models one run of merge_mc_lang.main, SpecScan one run of     *)
(* scan_advancements.main (scan_jar stepped one archive member at a time), *)
(* SpecFile one iteration of scan_jar's loop over a wide set of member     *)
(* paths and documents.  The file system is the environment: what an       *)
(* archive, an index or an object file holds is drawn when the code reads  *)
(* it.                                                                     *)
(***************************************************************************)
EXTENDS Integers, Sequences, FiniteSets, TLC

(***************************************************************************)
(* Bounds of the model.                                                    *)
(***************************************************************************)
MaxEntries == 2    \* members listed by one archive
MaxMods == 2       \* *.jar files of a mods directory
MaxDepth == 5      \* segments of a member path (SpecFile)

(***************************************************************************)
(* JSON documents as json.load returns them, and the bytes of a file that  *)
(* json.load cannot read.                                                  *)
(***************************************************************************)
J(k, v) == [k |-> k, v |-> v]
Null == J("null", 0)
JBool(b) == J("bool", b)
JNum(n) == J("num", n)
JStr(s) == J("str", s)
JArr(s) == J("arr", s)
JObj(m) == J("obj", m)
EmptyDict == [x \in {} |-> Null]
\* file contents on which open/read_text/json.load raise (caught as Exception)
Garbage == J("garbage", 0)
Missing == J("missing", 0)

\* json.load / json.loads raising (malformed text, unreadable member or file)
JsonRaises(c) == c.k \in {"garbage", "missing"}

\* isinstance(x, dict)
IsDict(x) == x.k = "obj"

\* Python truthiness of a JSON value: None, False, 0, "", [] and {} are falsy
Truthy(x) ==
  CASE x.k = "null" -> FALSE
    [] x.k = "bool" -> x.v
    [] x.k = "num" -> x.v # 0
    [] x.k = "str" -> x.v # ""
    [] x.k = "arr" -> x.v # <<>>
    [] x.k = "obj" -> DOMAIN x.v # {}
    [] OTHER -> FALSE

\* dict.get(key): the value, or None when the key is absent (d is a dict)
DictGet(d, key) == IF key \in DOMAIN d.v THEN d.v[key] ELSE Null

\* dict.update(e) on the mapping d
DictUpdateMut(d, e) ==
  [k \in (DOMAIN d) \cup (DOMAIN e) |-> IF k \in DOMAIN d THEN d[k] ELSE e[k]]

DictUpdate(d, e) ==
  [k \in (DOMAIN d) \cup (DOMAIN e) |-> IF k \in DOMAIN e THEN e[k] ELSE d[k]]

\* sorted(...) of a set of file names; a name is a number, filename order is <
RECURSIVE SortedMut(_)
SortedMut(S) ==
  IF S = {} THEN <<>>
  ELSE LET m == CHOOSE x \in S : \A y \in S : y <= x
       IN <<m>> \o SortedMut(S \ {m})

RECURSIVE Sorted(_)
Sorted(S) ==
  IF S = {} THEN <<>>
  ELSE LET m == CHOOSE x \in S : \A y \in S : x <= y
       IN <<m>> \o Sorted(S \ {m})

\* sequences over S of length 0..n
SeqUpTo(S, n) == UNION {[1..m -> S] : m \in 0..n}

\* an archive as zipfile.ZipFile(path) finds it: how opening ends, and the
\* namelist() with each member's content
Archive(open, namelist) == [open |-> open, listing |-> namelist]
DistinctNames(l) == \A i, j \in 1..Len(l) : l[i].name = l[j].name => i = j
Member(name, content) == [name |-> name, content |-> content]

(***************************************************************************)
(* merge_mc_lang.py                                                        *)
(***************************************************************************)
Keys == {"key.a", "key.b"}
Vals == {JStr("A"), JStr("Z")}
LangDicts == UNION {[D -> Vals] : D \in SUBSET Keys}
\* what a member or an object file can hold
LangContents == {Garbage, JArr(<<>>)} \cup {JObj(m) : m \in LangDicts}

\* member names, as path segments joined by "/"
LangNames == {<<"assets", "minecraft", "lang", "zh_cn.json">>,
              <<"assets", "mod", "notlang", "zh_cn.json">>}
OtherNames == {<<"assets", "mod", "lang", "en_us.json">>}
LangMembers ==
  {Member(n, c) : n \in LangNames, c \in LangContents}
    \cup {Member(n, JObj([k \in Keys |-> JStr("Z")])) : n \in OtherNames}
LangArchives ==
  {Archive("ok", l) : l \in {x \in SeqUpTo(LangMembers, MaxEntries) : DistinctNames(x)}}
    \cup {Archive(o, <<>>) : o \in {"bad_zip", "not_found", "os_error"}}

\* name.endswith("lang/zh_cn.json"): the last segment is zh_cn.json and the
\* segment before it ends in "lang"
SegEndsWithLang(seg) == seg \in {"lang", "notlang"}
IsLangFile(name) ==
  /\ Len(name) >= 2
  /\ name[Len(name)] = "zh_cn.json"
  /\ SegEndsWithLang(name[Len(name) - 1])

\* the loop of load_lang_from_jar over zf.namelist(), from member i on
RECURSIVE LangLoopMut(_, _, _, _)
LangLoopMut(namelist, i, acc, count) ==
  IF i > Len(namelist) THEN [merged |-> acc, count |-> count, warned |-> FALSE]
  ELSE LET m == namelist[i] IN
    IF ~IsLangFile(m.name) THEN LangLoopMut(namelist, i + 1, acc, count)
    ELSE IF JsonRaises(m.content)
      THEN [LangLoopMut(namelist, i + 1, acc, count) EXCEPT !.warned = TRUE]
    ELSE IF IsDict(m.content)
      THEN LangLoopMut(namelist, i + 1, m.content.v, count + 1)
    ELSE LangLoopMut(namelist, i + 1, acc, count)

RECURSIVE LangLoop(_, _, _, _)
LangLoop(namelist, i, acc, count) ==
  IF i > Len(namelist) THEN [merged |-> acc, count |-> count, warned |-> FALSE]
  ELSE LET m == namelist[i] IN
    IF ~IsLangFile(m.name) THEN LangLoop(namelist, i + 1, acc, count)
    ELSE IF JsonRaises(m.content)
      THEN [LangLoop(namelist, i + 1, acc, count) EXCEPT !.warned = TRUE]
    ELSE IF IsDict(m.content)
      THEN LangLoop(namelist, i + 1, DictUpdate(acc, m.content.v), count + 1)
    ELSE LangLoop(namelist, i + 1, acc, count)

\* load_lang_from_jar: (merged, count), whether a warning was printed, and
\* whether an exception left the function (only BadZipFile and
\* FileNotFoundError are caught around ZipFile(...))
load_lang_from_jar(arch) ==
  CASE arch.open = "os_error" ->
         [raised |-> TRUE, merged |-> EmptyDict, count |-> 0, warned |-> FALSE]
    [] arch.open \in {"bad_zip", "not_found"} ->
         [raised |-> FALSE, merged |-> EmptyDict, count |-> 0, warned |-> TRUE]
    [] OTHER ->
         LET r == LangLoop(arch.listing, 1, EmptyDict, 0)
         IN [raised |-> FALSE, merged |-> r.merged, count |-> r.count,
             warned |-> r.warned]


\* the asset index files and object stores a run can find
LangKey == "minecraft/lang/zh_cn.json"
HashVals == {JStr("abcd"), JStr(""), JNum(5), Null}
IndexEntries ==
  {Null, JObj(EmptyDict), JNum(5), JStr("x"), JStr("hashy"),
   JArr(<<JStr("hash")>>), JArr(<<JStr("x")>>)}
    \cup {JObj("hash" :> h) : h \in HashVals}
IndexObjects ==
  {Null, JArr(<<>>), JObj(EmptyDict)} \cup {JObj(LangKey :> e) : e \in IndexEntries}
IndexFiles ==
  {Missing, Garbage, Null, JNum(5), JStr("x"), JArr(<<>>), JObj(EmptyDict)}
    \cup {JObj("objects" :> o) : o \in IndexObjects}
\* objects_dir: the content stored under each hash
ObjectStores == [{"abcd"} -> LangContents \cup {Missing}]

\* (objects_dir / h[:2] / h).read_text()
ReadObject(store, h) == IF h \in DOMAIN store THEN store[h] ELSE Missing

\* "hash" in obj, for a truthy obj that supports the operator
StrContainsHash(s) == s \in {"hash", "hashy"}
ContainsHash(obj) ==
  CASE obj.k = "obj" -> "hash" \in DOMAIN obj.v
    [] obj.k = "str" -> StrContainsHash(obj.v)
    [] obj.k = "arr" -> \E i \in 1..Len(obj.v) : obj.v[i] = JStr("hash")
    [] OTHER -> FALSE

AssetsResult(raised, data, count, warn, read) ==
  [raised |-> raised, data |-> data, count |-> count, warned |-> warn, read |-> read]
AssetsWarn == AssetsResult(FALSE, EmptyDict, 0, TRUE, Missing)
AssetsRaise == AssetsResult(TRUE, EmptyDict, 0, FALSE, Missing)

\* load_lang_from_assets: (data, count); raised when an AttributeError or a
\* TypeError leaves the function; read is what json.loads returned for the
\* object file, when the function got that far
load_lang_from_assets(index, store) ==
  IF JsonRaises(index) THEN AssetsWarn
  ELSE IF ~IsDict(index) THEN AssetsRaise
  ELSE LET objects == IF "objects" \in DOMAIN index.v
                        THEN index.v["objects"] ELSE JObj(EmptyDict) IN
  IF ~IsDict(objects) THEN AssetsRaise
  ELSE LET obj == DictGet(objects, LangKey) IN
  IF ~Truthy(obj) THEN AssetsWarn
  ELSE IF obj.k \in {"num", "bool"} THEN AssetsRaise
  ELSE IF ~ContainsHash(obj) THEN AssetsWarn
  ELSE IF ~IsDict(obj) THEN AssetsRaise
  ELSE LET h == obj.v["hash"] IN
  IF h.k # "str" THEN AssetsRaise
  ELSE LET data == ReadObject(store, h.v) IN
  IF JsonRaises(data) THEN AssetsWarn
  ELSE IF ~IsDict(data) THEN AssetsResult(FALSE, EmptyDict, 0, FALSE, data)
  ELSE AssetsResult(FALSE, data.v, 1, FALSE, data)

\* find_version_jar: <version_dir>/<name>.jar when it is a file, else the
\* first *.jar of the directory in sorted order, else None
ExpectedJar == 0
NoJar == -1
VersionJarNames == {1, 2}
find_version_jar(expected_is_file, found) ==
  IF expected_is_file THEN ExpectedJar
  ELSE IF Len(found) = 1 THEN found[1]
  ELSE IF found # <<>> THEN found[1]
  ELSE NoJar

\* main, lines 130-136 (and 148-154, 164): the asset index is consulted when
\* the archive gave no lang file and both asset arguments are given
ConsultAssetsMut(count, assets_index, assets_dir) == assets_index /\ assets_dir

ConsultAssets(count, assets_index, assets_dir) ==
  count = 0 /\ assets_index /\ assets_dir

(***************************************************************************)
(* State of one run of merge_mc_lang.main.                                 *)
(***************************************************************************)
VARIABLES
  args,         \* the parsed command line; version_dir also says whether it is a directory
  pc,           \* where main is: start, base, mods, mod_loop, write, done
  merged,       \* main's accumulator
  mod_jars,     \* sorted(mods_dir.glob("*.jar"))
  mod_i,        \* position of the for loop in mod_jars
  exit_code,    \* the process's exit status, -1 while running
  traceback,    \* an uncaught exception ended the run
  out_dir,      \* output_path.parent has been created
  out_file,     \* what has been written to output_path
  warned,       \* a [warn] line has been printed
  opened,       \* history: kinds of data source the run has opened
  base_from,    \* history: base sources whose data went into merged
  jar_count,    \* history: count given by the archive read as base, -1 if none was read
  expected,     \* history: per key, the value of the last parsed resource holding it
  overrode,     \* history: a mod archive gave a key a value other than the one it had
  parsed_keys   \* history: keys of every resource parsed as a mapping

mvars == <<args, pc, merged, mod_jars, mod_i, exit_code,
           traceback, out_dir, out_file, warned, opened, base_from, jar_count,
           expected, overrode, parsed_keys>>

(***************************************************************************)
(* State of one run of scan_advancements.main.                             *)
(***************************************************************************)
VARIABLES
  s_pc,         \* where main and scan_jar are: start, open, members, output, done
  s_output,     \* -o/--output is given
  jars,         \* sorted(mods_dir.glob("*.jar"))
  jar_i,        \* position of the for loop in jars
  results,      \* scan_jar's list
  report,       \* main's report: total_jars and flagged
  emitted,      \* the report as saved or printed
  s_exit,       \* the process's exit status, -1 while running
  s_traceback,  \* an uncaught exception ended the run
  listing,      \* history: the member names scan_jar has gone through in the open archive
  dir_jars,     \* history: the *.jar names of the mods directory
  unopenable    \* history: the archives ZipFile(...) could not open

svars == <<s_pc, s_output, jars, jar_i, results, report, emitted, s_exit,
           s_traceback, listing, dir_jars, unopenable>>

(***************************************************************************)
(* State of one iteration of scan_jar's loop, for SpecFile.                *)
(***************************************************************************)
VARIABLES
  f_pc,         \* scan, done
  f_member,     \* the archive member of this iteration
  f_results     \* scan_jar's list after it

fvars == <<f_pc, f_member, f_results>>

vars == <<mvars, svars, fvars>>

NoFile == J("nofile", 0)
Running == -1

ArgSets ==
  [version_dir : {"none", "missing", "dir"}, base_jar : BOOLEAN,
   assets_index : BOOLEAN, assets_dir : BOOLEAN, mods_dir : BOOLEAN,
   output : BOOLEAN, no_mods : BOOLEAN]

MergeInit ==
  /\ args \in ArgSets
  /\ pc = "start"
  /\ merged = EmptyDict
  /\ mod_jars = <<>>
  /\ mod_i = 1
  /\ exit_code = Running
  /\ traceback = FALSE
  /\ out_dir = FALSE
  /\ out_file = NoFile
  /\ warned = FALSE
  /\ opened = {}
  /\ base_from = {}
  /\ jar_count = -1
  /\ expected = EmptyDict
  /\ overrode = FALSE
  /\ parsed_keys = {}

\* the resources of an archive that are parsed as mappings, in listing order
ParsedMember(m) == IsLangFile(m.name) /\ IsDict(m.content)
ParsedOf(arch) ==
  IF arch.open = "ok" THEN
    LET l == SelectSeq(arch.listing, ParsedMember)
    IN [i \in 1..Len(l) |-> l[i].content.v]
  ELSE <<>>
KeysOf(rs) == UNION {DOMAIN rs[i] : i \in 1..Len(rs)}
\* per key, the value of the last mapping of rs that holds it, else prev's
LastWrite(prev, rs) ==
  [k \in (DOMAIN prev) \cup KeysOf(rs) |->
     IF k \in KeysOf(rs)
       THEN LET i == CHOOSE n \in 1..Len(rs) :
                       /\ k \in DOMAIN rs[n]
                       /\ \A m \in (n + 1)..Len(rs) : k \notin DOMAIN rs[m]
            IN rs[i][k]
       ELSE prev[k]]

\* what reading one archive can give: load_lang_from_jar's result, and the
\* mappings the archive holds as lang files, in listing order, summed up as
\* the one mapping that gives each key its last value
JarReads ==
  {[result |-> load_lang_from_jar(a),
    parsed |-> IF ParsedOf(a) = <<>> THEN <<>>
               ELSE <<LastWrite(EmptyDict, ParsedOf(a))>>] : a \in LangArchives}
\* what reading the asset index and the object store can give
AssetsReads ==
  {load_lang_from_assets(i, s) : i \in IndexFiles, s \in ObjectStores}

\* rs gives a key of prev another value
Overrides(prev, rs) ==
  \E k \in (DOMAIN prev) \cap KeysOf(rs) : LastWrite(prev, rs)[k] # prev[k]

\* an uncaught exception: the interpreter prints a traceback and exits with 1
Crash(kinds) ==
  /\ pc' = "done"
  /\ exit_code' = 1
  /\ traceback' = TRUE
  /\ opened' = opened \cup kinds
  /\ UNCHANGED <<args, merged, mod_jars, mod_i, out_dir, out_file,
                 warned, base_from, expected, overrode, parsed_keys>>

\* main, lines 105-120
Validate ==
  /\ UNCHANGED <<svars, fvars>>
  /\ pc = "start"
  /\ IF args.version_dir = "missing" \/ (~args.output /\ args.version_dir = "none")
       THEN pc' = "done" /\ exit_code' = 1
       ELSE pc' = "base" /\ exit_code' = exit_code
  /\ UNCHANGED <<args, merged, mod_jars, mod_i, traceback,
                 out_dir, out_file, warned, opened, base_from, jar_count,
                 expected, overrode, parsed_keys>>

\* "if count: merged.update(data)" for a base source; rs are
\* the mappings parsed on the way, w whether a warning was printed
TakeBase(data, count, kinds, from, rs, w) ==
  /\ merged' = IF count # 0 THEN DictUpdate(merged, data) ELSE merged
  /\ opened' = opened \cup kinds
  /\ base_from' = base_from \cup from
  /\ warned' = (warned \/ w)
  /\ expected' = LastWrite(expected, rs)
  /\ parsed_keys' = parsed_keys \cup KeysOf(rs)
  /\ pc' = "mods"
  /\ UNCHANGED <<args, mod_jars, mod_i, exit_code, traceback, out_dir, out_file,
                 overrode>>

\* main, lines 137-143 (= 155-161, 165-171, 173-179): the asset index as base
FromAssets(kinds, w) ==
  \E a \in AssetsReads :
    LET k == kinds \cup {"assets"}
    IN IF a.raised THEN Crash(k)
       ELSE TakeBase(a.data, a.count, k, IF a.count # 0 THEN {"assets"} ELSE {},
                     IF IsDict(a.read) THEN <<a.read.v>> ELSE <<>>,
                     w \/ a.count = 0)

\* main, lines 129-143 (= 147-161): an archive as base, the asset index after it
FromJar(kind) ==
  \E read \in JarReads :
    LET j == read.result IN
    IF j.raised THEN Crash({kind}) /\ jar_count' = jar_count
    ELSE /\ jar_count' = j.count
         /\ IF ConsultAssets(j.count, args.assets_index, args.assets_dir)
              THEN FromAssets({kind}, TRUE)
              ELSE TakeBase(j.merged, j.count, {kind},
                            IF j.count # 0 THEN {kind} ELSE {},
                            read.parsed, j.warned \/ j.count = 0)

\* main, lines 128-143: --base-jar is given
BaseExplicitJar ==
  /\ UNCHANGED <<svars, fvars>>
  /\ pc = "base"
  /\ args.base_jar
  /\ FromJar("base_jar")

\* main, lines 144-171: no --base-jar, a version directory
BaseVersionDir ==
  /\ UNCHANGED <<svars, fvars>>
  /\ pc = "base"
  /\ ~args.base_jar
  /\ args.version_dir = "dir"
  /\ \E expected_is_file \in BOOLEAN, S \in SUBSET VersionJarNames :
       LET vj == find_version_jar(expected_is_file, Sorted(S)) IN
       IF vj # NoJar THEN FromJar("version_jar")
          ELSE /\ jar_count' = jar_count
               /\ IF ConsultAssets(0, args.assets_index, args.assets_dir)
                    THEN FromAssets({}, TRUE)
                    ELSE TakeBase(EmptyDict, 0, {}, {}, <<>>, TRUE)

\* main, lines 172-179: neither, but the asset index and the object store
BaseAssetsOnly ==
  /\ UNCHANGED <<svars, fvars>>
  /\ pc = "base"
  /\ ~args.base_jar
  /\ args.version_dir = "none"
  /\ args.assets_index /\ args.assets_dir
  /\ UNCHANGED jar_count
  /\ FromAssets({}, FALSE)

\* main, lines 128-179 with no branch taken: no base source at all
BaseNone ==
  /\ UNCHANGED <<svars, fvars>>
  /\ pc = "base"
  /\ ~args.base_jar
  /\ args.version_dir = "none"
  /\ ~(args.assets_index /\ args.assets_dir)
  /\ UNCHANGED jar_count
  /\ TakeBase(EmptyDict, 0, {}, {}, <<>>, FALSE)

\* mods_dir of line 182 is None
NoModsDir == ~args.mods_dir /\ args.version_dir # "dir"

\* main, line 181: --no-mods
SkipMods ==
  /\ UNCHANGED <<svars, fvars>>
  /\ pc = "mods"
  /\ args.no_mods
  /\ pc' = "write"
  /\ UNCHANGED <<args, merged, mod_jars, mod_i, exit_code,
                 traceback, out_dir, out_file, warned, opened, base_from,
                 jar_count, expected, overrode, parsed_keys>>

\* main, lines 182-183, 193-194: there is no mods directory
ModsDirNotFound ==
  /\ UNCHANGED <<svars, fvars>>
  /\ pc = "mods"
  /\ ~args.no_mods
  /\ pc' = "write"
  /\ UNCHANGED <<args, merged, mod_jars, mod_i, exit_code,
                 traceback, out_dir, out_file, warned, opened, base_from,
                 jar_count, expected, overrode, parsed_keys>>

\* main, lines 182-186: the mods directory is listed and sorted
ListModJars ==
  /\ UNCHANGED <<svars, fvars>>
  /\ pc = "mods"
  /\ ~args.no_mods
  /\ ~NoModsDir
  /\ \E S \in SUBSET (1..MaxMods) :
       /\ mod_jars' = Sorted(S)
       /\ pc' = IF S = {} THEN "write" ELSE "mod_loop"
  /\ mod_i' = 1
  /\ UNCHANGED <<args, merged, exit_code, traceback,
                 out_dir, out_file, warned, opened, base_from, jar_count,
                 expected, overrode, parsed_keys>>

\* main, lines 187-192: one iteration of the loop over mod_jars
MergeModJar ==
  /\ UNCHANGED <<svars, fvars>>
  /\ pc = "mod_loop"
  /\ mod_i <= Len(mod_jars)
  /\ UNCHANGED jar_count
  /\ \E read \in JarReads :
       LET j == read.result IN
       IF j.raised THEN Crash({"mod_jar"})
       ELSE /\ merged' = IF j.count # 0 THEN DictUpdate(merged, j.merged) ELSE merged
            /\ opened' = opened \cup {"mod_jar"}
            /\ warned' = (warned \/ j.warned)
            /\ expected' = LastWrite(expected, read.parsed)
            /\ overrode' = (overrode \/ Overrides(expected, read.parsed))
            /\ parsed_keys' = parsed_keys \cup KeysOf(read.parsed)
            /\ mod_i' = mod_i + 1
            /\ pc' = IF mod_i = Len(mod_jars) THEN "write" ELSE "mod_loop"
            /\ UNCHANGED <<args, mod_jars, exit_code, traceback, out_dir,
                           out_file, base_from>>

\* main, lines 196-201: the output is written and main returns 0
WriteOutput ==
  /\ UNCHANGED <<svars, fvars>>
  /\ pc = "write"
  /\ out_dir' = TRUE
  /\ out_file' = JObj(merged)
  /\ exit_code' = 0
  /\ pc' = "done"
  /\ UNCHANGED <<args, merged, mod_jars, mod_i, traceback,
                 warned, opened, base_from, jar_count, expected, overrode, parsed_keys>>

MergeNext ==
  \/ Validate
  \/ BaseExplicitJar
  \/ BaseVersionDir
  \/ BaseAssetsOnly
  \/ BaseNone
  \/ SkipMods
  \/ ModsDirNotFound
  \/ ListModJars
  \/ MergeModJar
  \/ WriteOutput


(***************************************************************************)
(* scan_advancements.py                                                    *)
(***************************************************************************)
\* segments of member names; a name is its segments joined by "/"
Segs == {"data", "ns", "advancements", "x.json"}
SegEndsWithJson(seg) == seg \in {"x.json"}

\* name.startswith("data/")
StartsWithData(name) == Len(name) >= 2 /\ name[1] = "data"
\* "/advancements/" in name
ContainsAdvancements(name) == \E i \in 2..(Len(name) - 1) : name[i] = "advancements"
\* name.endswith(".json")
EndsWithJson(name) == Len(name) >= 1 /\ SegEndsWithJson(name[Len(name)])

\* scan_jar, line 14: the members the loop does not skip
IsAdvancementFile(name) ==
  StartsWithData(name) /\ ContainsAdvancements(name) /\ EndsWithJson(name)

\* an entry of report["flagged"]; its reason or announce_to_chat field follows
\* from the status
Entry(jar, path, status) == [jar |-> jar, path |-> path, status |-> status]

\* scan_jar, lines 14-45: what one iteration of the loop appends to results
ScanMemberMut(jar, m) ==
  IF ~IsAdvancementFile(m.name) THEN <<>>
  ELSE IF JsonRaises(m.content) THEN <<Entry(jar, m.name, "invalid_json")>>
  ELSE LET data == m.content
           display == IF IsDict(data) THEN DictGet(data, "display") ELSE Null
           announce == IF IsDict(display)
                         THEN DictGet(display, "announce_to_chat") ELSE Null
       IN (IF ~Truthy(display) /\ IsDict(data)
             THEN <<Entry(jar, m.name, "no_display")>> ELSE <<>>)
          \o (IF announce = JBool(FALSE)
                THEN <<Entry(jar, m.name, "announce_to_chat_false")>> ELSE <<>>)

ScanMember(jar, m) ==
  IF ~IsAdvancementFile(m.name) THEN <<>>
  ELSE IF JsonRaises(m.content) THEN <<Entry(jar, m.name, "invalid_json")>>
  ELSE LET data == m.content
           display == IF IsDict(data) THEN DictGet(data, "display") ELSE Null
       IN IF ~Truthy(display) THEN <<Entry(jar, m.name, "no_display")>>
          ELSE LET announce == IF IsDict(display)
                                 THEN DictGet(display, "announce_to_chat") ELSE Null
               IN IF announce = JBool(FALSE)
                    THEN <<Entry(jar, m.name, "announce_to_chat_false")>>
                    ELSE <<>>

\* the members a run of the scanner meets
RunNames == {<<"data", "ns", "advancements", "x.json">>,
             <<"data", "ns", "advancements", "ns", "x.json">>,
             <<"data", "ns", "x.json">>}
RunDocs == {Garbage,
            JObj("criteria" :> JObj(EmptyDict)),
            JObj("display" :> JObj("announce_to_chat" :> JBool(FALSE))),
            JObj("display" :> JObj("title" :> JStr("x")))}
RunMembers == {Member(n, c) : n \in RunNames, c \in RunDocs}

NoReport == [total_jars |-> -1, flagged |-> <<>>]

ScanInit ==
  /\ s_pc = "start"
  /\ s_output \in BOOLEAN
  /\ jars = <<>>
  /\ jar_i = 1
  /\ results = <<>>
  /\ report = NoReport
  /\ emitted = NoReport
  /\ s_exit = Running
  /\ s_traceback = FALSE
  /\ listing = <<>>
  /\ dir_jars = {}
  /\ unopenable = {}

\* main, lines 64-67: the mods directory does not exist
ScanDirMissing ==
  /\ UNCHANGED <<mvars, fvars>>
  /\ s_pc = "start"
  /\ s_pc' = "done"
  /\ s_exit' = 1
  /\ UNCHANGED <<s_output, jars, jar_i, results, report, emitted, s_traceback,
                 listing, dir_jars, unopenable>>

\* main, lines 64-76: the directory is listed, sorted and counted
ScanListJars ==
  /\ UNCHANGED <<mvars, fvars>>
  /\ s_pc = "start"
  /\ \E S \in SUBSET (1..MaxMods) :
       /\ dir_jars' = S
       /\ jars' = Sorted(S)
       /\ report' = [total_jars |-> Len(Sorted(S)), flagged |-> <<>>]
       /\ s_pc' = IF S = {} THEN "output" ELSE "open"
  /\ UNCHANGED <<s_output, jar_i, results, emitted, s_exit, s_traceback,
                 listing, unopenable>>

\* after scan_jar: the for loop of main, lines 78-79, moves on
NextJar == IF jar_i = Len(jars) THEN "output" ELSE "open"

\* scan_jar, lines 10-12: the archive opens
OpenJar ==
  /\ UNCHANGED <<mvars, fvars>>
  /\ s_pc = "open"
  /\ results' = <<>>
  /\ listing' = <<>>
  /\ s_pc' = "members"
  /\ UNCHANGED <<s_output, jars, jar_i, report, emitted, s_exit, s_traceback,
                 dir_jars, unopenable>>

\* scan_jar, lines 10-12, 46-53 and main, line 79: ZipFile raises BadZipFile
OpenBadJar ==
  /\ UNCHANGED <<mvars, fvars>>
  /\ s_pc = "open"
  /\ results' = <<Entry(jars[jar_i], <<>>, "bad_jar")>>
  /\ listing' = <<>>
  /\ report' = [report EXCEPT !.flagged = @ \o results']
  /\ unopenable' = unopenable \cup {jars[jar_i]}
  /\ jar_i' = jar_i + 1
  /\ s_pc' = NextJar
  /\ UNCHANGED <<s_output, jars, emitted, s_exit, s_traceback, dir_jars>>

\* scan_jar, line 12: ZipFile raises an OSError (a directory or an unreadable
\* file named *.jar, a dangling link), which nothing catches
OpenJarRaises ==
  /\ UNCHANGED <<mvars, fvars>>
  /\ s_pc = "open"
  /\ unopenable' = unopenable \cup {jars[jar_i]}
  /\ s_pc' = "done"
  /\ s_exit' = 1
  /\ s_traceback' = TRUE
  /\ UNCHANGED <<s_output, jars, jar_i, results, report, emitted, listing,
                 dir_jars>>

\* scan_jar, lines 13-45: one iteration of the loop over zf.namelist()
ScanNextMember ==
  /\ UNCHANGED <<mvars, fvars>>
  /\ s_pc = "members"
  /\ Len(listing) < MaxEntries
  /\ \E m \in RunMembers :
       /\ \A i \in 1..Len(listing) : listing[i] # m.name
       /\ results' = results \o ScanMember(jars[jar_i], m)
       /\ listing' = Append(listing, m.name)
  /\ UNCHANGED <<s_pc, s_output, jars, jar_i, report, emitted, s_exit,
                 s_traceback, dir_jars, unopenable>>

\* scan_jar, line 53 and main, line 79: the list is returned and appended
CloseJar ==
  /\ UNCHANGED <<mvars, fvars>>
  /\ s_pc = "members"
  /\ report' = [report EXCEPT !.flagged = @ \o results]
  /\ jar_i' = jar_i + 1
  /\ s_pc' = NextJar
  /\ UNCHANGED <<s_output, jars, results, emitted, s_exit, s_traceback,
                 listing, dir_jars, unopenable>>

\* main, lines 81-90: the report is saved or printed and main returns 0
ScanOutput ==
  /\ UNCHANGED <<mvars, fvars>>
  /\ s_pc = "output"
  /\ emitted' = report
  /\ s_exit' = 0
  /\ s_pc' = "done"
  /\ UNCHANGED <<s_output, jars, jar_i, results, report, s_traceback, listing,
                 dir_jars, unopenable>>

ScanNext ==
  \/ ScanDirMissing
  \/ ScanListJars
  \/ OpenJar
  \/ OpenBadJar
  \/ OpenJarRaises
  \/ ScanNextMember
  \/ CloseJar
  \/ ScanOutput

(***************************************************************************)
(* One iteration of scan_jar's loop on any member.                         *)
(***************************************************************************)
FileNames == SeqUpTo(Segs, MaxDepth) \ {<<>>}
Scalars == {Null, JBool(TRUE), JBool(FALSE), JNum(0), JStr("x"), JArr(<<>>)}
AnnounceVals == Scalars \cup {JObj(EmptyDict)}
DisplayObjs ==
  {JObj(EmptyDict), JObj("title" :> JStr("x"))}
    \cup {JObj("announce_to_chat" :> a) : a \in AnnounceVals}
    \cup {JObj(("title" :> JStr("x")) @@ ("announce_to_chat" :> a)) : a \in AnnounceVals}
DisplayVals == Scalars \cup DisplayObjs
AdvDocs ==
  {Garbage} \cup Scalars
    \cup {JObj(EmptyDict), JObj("criteria" :> JObj(EmptyDict))}
    \cup {JObj("display" :> d) : d \in DisplayVals}
    \cup {JObj(("criteria" :> JObj(EmptyDict)) @@ ("display" :> d)) : d \in DisplayVals}
FileJar == 1

FileInit ==
  /\ f_pc = "scan"
  /\ f_member \in {Member(n, c) : n \in FileNames, c \in AdvDocs}
  /\ f_results = <<>>

\* scan_jar, lines 13-45, on f_member
FileScan ==
  /\ UNCHANGED <<mvars, svars>>
  /\ f_pc = "scan"
  /\ f_results' = ScanMember(FileJar, f_member)
  /\ f_pc' = "done"
  /\ UNCHANGED f_member

FileNext == FileScan

(***************************************************************************)
(* The specifications.  A run of one tool leaves the state of the others   *)
(* at rest.                                                                *)
(***************************************************************************)
MergeIdle ==
  /\ args = [version_dir |-> "none", base_jar |-> FALSE, assets_index |-> FALSE,
             assets_dir |-> FALSE, mods_dir |-> FALSE, output |-> FALSE,
             no_mods |-> FALSE]
  /\ pc = "idle"
  /\ merged = EmptyDict
  /\ mod_jars = <<>>
  /\ mod_i = 1
  /\ exit_code = Running
  /\ traceback = FALSE
  /\ out_dir = FALSE
  /\ out_file = NoFile
  /\ warned = FALSE
  /\ opened = {}
  /\ base_from = {}
  /\ jar_count = -1
  /\ expected = EmptyDict
  /\ overrode = FALSE
  /\ parsed_keys = {}

ScanIdle ==
  /\ s_pc = "idle"
  /\ s_output = FALSE
  /\ jars = <<>>
  /\ jar_i = 1
  /\ results = <<>>
  /\ report = NoReport
  /\ emitted = NoReport
  /\ s_exit = Running
  /\ s_traceback = FALSE
  /\ listing = <<>>
  /\ dir_jars = {}
  /\ unopenable = {}

FileIdle ==
  /\ f_pc = "idle"
  /\ f_member = Member(<<>>, Garbage)
  /\ f_results = <<>>

InitMerge == MergeInit /\ ScanIdle /\ FileIdle
InitScan == ScanInit /\ MergeIdle /\ FileIdle
InitFile == FileInit /\ MergeIdle /\ ScanIdle

SpecMerge == InitMerge /\ [][MergeNext]_vars
SpecScan == InitScan /\ [][ScanNext]_vars
SpecFile == InitFile /\ [][FileNext]_vars

(***************************************************************************)
(* Claims about the Language Merger, checked under SpecMerge.              *)
(***************************************************************************)
\* argument validation fails: lines 110-112 or 118-120
ValidationFails ==
  args.version_dir = "missing" \/ (~args.output /\ args.version_dir = "none")

\* C1: last-write-wins.  With the base source read first and the mod archives in
\* sorted filename order, every key of the accumulator, and of the output once
\* written, carries the value of the last parsed resource that holds the key.
C1_LastWriteWins ==
  /\ \A i, j \in 1..Len(mod_jars) : i < j => mod_jars[i] < mod_jars[j]
  /\ \A k \in DOMAIN merged : k \in DOMAIN expected /\ merged[k] = expected[k]
  /\ out_file # NoFile =>
       \A k \in DOMAIN out_file.v : k \in DOMAIN expected /\ out_file.v[k] = expected[k]

\* a run with a base source and one mod archive whose value replaced the base's
C1_Witness ==
  /\ pc = "done" /\ exit_code = 0
  /\ base_from # {}
  /\ Len(mod_jars) = 1
  /\ overrode
  /\ out_file = JObj(expected)

\* C2: key-set union.  The keys of the accumulator, and of the output when it is
\* written, are exactly the keys of the resources parsed as mappings.
C2_KeySetUnion ==
  /\ DOMAIN merged = parsed_keys
  /\ out_file # NoFile => DOMAIN out_file.v = parsed_keys

\* output written from a base source and mod archives, with a malformed or
\* non-mapping resource warned about on the way
C2_Witness ==
  /\ pc = "done" /\ exit_code = 0
  /\ base_from # {} /\ "mod_jar" \in opened
  /\ warned
  /\ DOMAIN out_file.v = Keys

\* C5: base resolution is first-match-wins.  At most one base source gives data;
\* with --base-jar the version directory's archive is never read; the asset
\* index is read only when the archive read as base gave no lang file or no
\* archive was read.
C5_BaseFirstMatch ==
  /\ Cardinality(base_from) <= 1
  /\ base_from \subseteq opened
  /\ args.base_jar => "version_jar" \notin opened
  /\ ~({"base_jar", "version_jar"} \subseteq opened)
  /\ "assets" \in opened => jar_count <= 0
  /\ "assets" \in base_from => base_from \cap {"base_jar", "version_jar"} = {}

\* every candidate is given, and only the explicit archive is used
C5_Witness ==
  /\ pc = "done" /\ exit_code = 0
  /\ args.base_jar /\ args.version_dir = "dir"
  /\ args.assets_index /\ args.assets_dir
  /\ base_from = {"base_jar"}
  /\ opened \cap {"version_jar", "assets"} = {}

\* C6: failure policy.  Once validation has passed, a failing data source is
\* only a warning: the run ends with exit code 0 and the output written.
C6_FailureIsWarning ==
  (pc = "done" /\ ~ValidationFails) =>
    /\ exit_code = 0
    /\ ~traceback
    /\ out_file = JObj(merged)

\* C10: exit code 1 exactly on a validation failure, and then no data source
\* has been opened and nothing has been created or written.
C10_FatalLeavesNoTrace ==
  pc = "done" =>
    /\ exit_code = 1 <=> ValidationFails
    /\ exit_code = 1 => (opened = {} /\ ~out_dir /\ out_file = NoFile)

(***************************************************************************)
(* Claims about one iteration of the Advancement Scanner's loop, checked   *)
(* under SpecFile.                                                         *)
(***************************************************************************)
\* the documented pattern data/*/advancements/**/*.json: first segment data,
\* second a namespace, third advancements, and a last segment ending in .json
MatchesPattern(name) ==
  /\ Len(name) >= 4
  /\ name[1] = "data"
  /\ name[3] = "advancements"
  /\ SegEndsWithJson(name[Len(name)])

\* the parsed value of the member is an object holding a display object
HasDisplayObject(m) ==
  /\ IsDict(m.content)
  /\ "display" \in DOMAIN m.content.v
  /\ IsDict(m.content.v["display"])

\* the member parses, and its value is no object or holds no display field
LacksDisplay(m) ==
  /\ ~JsonRaises(m.content)
  /\ ~IsDict(m.content) \/ "display" \notin DOMAIN m.content.v

\* C3: announce classification.  An advancement definition that parses as an
\* object with a display object of any content gives exactly one
\* announce_to_chat_false entry when display.announce_to_chat is literally
\* false, and no entry otherwise.
C3_AnnounceClassification ==
  (f_pc = "done" /\ MatchesPattern(f_member.name) /\ HasDisplayObject(f_member)) =>
    IF DictGet(f_member.content.v["display"], "announce_to_chat") = JBool(FALSE)
      THEN f_results = <<Entry(FileJar, f_member.name, "announce_to_chat_false")>>
      ELSE f_results = <<>>

\* C4: no_display exclusivity.  A scanned file whose parsed value lacks a
\* display field or is not an object gives exactly one entry, with status
\* no_display; no file gives more than one entry.
C4_NoDisplayExclusive ==
  f_pc = "done" =>
    /\ Len(f_results) <= 1
    /\ (IsAdvancementFile(f_member.name) /\ LacksDisplay(f_member)) =>
         f_results = <<Entry(FileJar, f_member.name, "no_display")>>

\* a scanned file holding a JSON array has given its one no_display entry
C4_Witness ==
  /\ f_pc = "done"
  /\ IsAdvancementFile(f_member.name)
  /\ f_member.content = JArr(<<>>)
  /\ f_results = <<Entry(FileJar, f_member.name, "no_display")>>

\* C7: path filter.  A member gives an entry only if its path matches
\* data/*/advancements/**/*.json, and every matching member is examined: one
\* that does not parse gives its invalid_json entry.
C7_PathFilter ==
  f_pc = "done" =>
    /\ f_results # <<>> => MatchesPattern(f_member.name)
    /\ (MatchesPattern(f_member.name) /\ JsonRaises(f_member.content)) =>
         f_results # <<>>

(***************************************************************************)
(* Claims about a run of the Advancement Scanner, checked under SpecScan.  *)
(***************************************************************************)
\* the entries of flagged that name archive j
EntriesOf(flagged, j) == SelectSeq(flagged, LAMBDA e : e.jar = j)

\* C8: bad archive handling.  Every archive that could not be opened has
\* exactly one entry, with status bad_jar; the run goes on through all later
\* archives and ends with exit code 0.
C8_BadJarContinues ==
  (s_pc = "done" /\ unopenable # {}) =>
    /\ \A j \in unopenable :
         EntriesOf(emitted.flagged, j) = <<Entry(j, <<>>, "bad_jar")>>
    /\ jar_i = Len(jars) + 1
    /\ s_exit = 0

\* a precedes b in the namelist l
Before(l, a, b) ==
  \E i, j \in 1..Len(l) : i < j /\ l[i] = a /\ l[j] = b

\* flagged is ordered by archive, its archives are archives of the mods
\* directory, and the entries of the archive scanned last are in the order of
\* its namelist
Ordered(flagged) ==
  /\ \A i, j \in 1..Len(flagged) : i < j => flagged[i].jar <= flagged[j].jar
  /\ \A i \in 1..Len(flagged) : flagged[i].jar \in dir_jars
  /\ (s_pc # "members" /\ jar_i > 1) =>
       \A i, j \in 1..Len(flagged) :
         (i < j /\ flagged[i].jar = jars[jar_i - 1] /\ flagged[j].jar = jars[jar_i - 1])
           => Before(listing, flagged[i].path, flagged[j].path)

\* flagged only grows at its end
GrowsAtEnd ==
  /\ Len(report.flagged) <= Len(report'.flagged)
  /\ SubSeq(report'.flagged, 1, Len(report.flagged)) = report.flagged

\* C9: report ordering and count.  total_jars is the number of *.jar archives
\* of the mods directory; flagged is ordered by archive in sorted filename
\* order, each archive's entries are contiguous and in its listing order and
\* name an archive of the directory: entries are only ever appended, archive
\* after archive, and the final report is the one so built.
C9_ReportOrder ==
  /\ [](report # NoReport =>
          /\ report.total_jars = Cardinality(dir_jars)
          /\ Ordered(report.flagged))
  /\ [](s_exit = 0 => emitted = report)
  /\ [][GrowsAtEnd]_vars

\* a final report on two archives, one with two entries, the other with one
C9_Witness ==
  /\ s_pc = "done" /\ s_exit = 0
  /\ emitted.total_jars = 2
  /\ Len(EntriesOf(emitted.flagged, 1)) = 2
  /\ Len(EntriesOf(emitted.flagged, 2)) = 1

=============================================================================
